---------------------------- MODULE Spec2Model ----------------------------
(***************************************************************************)
(* Model of ethers-solc's bindings for solc's `ast` output field           *)
(* (src/ethers-solc/src/artifacts/ast.rs): the SourceLocation codec        *)
(* (FromStr / Display), the NodeType enum with its derived serde           *)
(* representation, and the derived Deserialize / Serialize of Node and     *)
(* Ast (with #[serde(default)], skip_serializing_if and #[serde(flatten)]).*)
(*                                                                         *)
(* A Rust string is a sequence of one-character strings.  A JSON value is  *)
(* a tagged record: [t |-> "null"], [t |-> "num", n |-> Int],              *)
(* [t |-> "str", s |-> string], [t |-> "arr", a |-> sequence],             *)
(* [t |-> "obj", o |-> function from key strings to JSON values].          *)
(* A Result is [ok |-> TRUE, val |-> x] or [ok |-> FALSE, err |-> e];       *)
(* an Option is [some |-> TRUE, v |-> x] or [some |-> FALSE].               *)
(***************************************************************************)
EXTENDS Integers, Sequences, FiniteSets, TLC

VARIABLES
  pc,     \* position in the pipeline: "start", "parsed", "failed", "shown", "done"
  kind,   \* the entry point exercised: what `given` is
  given,  \* the input handed to the code (text, JSON value or typed value)
  value,  \* Result of the first parse of `given`
  wire,   \* what Display / Serialize wrote
  again   \* Result of parsing `wire`

vars == <<pc, kind, given, value, wire, again>>

Nil == "nil"

(***************************************************************************)
(* Bounds of the model.                                                    *)
(***************************************************************************)
\* width of usize / isize in bits (the targets have 32 or 64)
WordBits == 3
\* most ':'-separated segments in an input text
MaxSegs == 4
\* most levels of nodes below the root of an input document
MaxDepth == 1

UsizeMax == 2^WordBits - 1
IsizeMax == 2^(WordBits - 1) - 1
IsizeMin == 0 - 2^(WordBits - 1)

(***************************************************************************)
(* Option and Result.                                                      *)
(***************************************************************************)
None == [some |-> FALSE]
Some(x) == [some |-> TRUE, v |-> x]
Ok(x) == [ok |-> TRUE, val |-> x]
Err(e) == [ok |-> FALSE, err |-> e]

(***************************************************************************)
(* core::str: split(':'), integer parsing and integer formatting.          *)
(***************************************************************************)
DigitChars == <<"0", "1", "2", "3", "4", "5", "6", "7", "8", "9">>
IsDigit(c) == \E i \in 1..10 : DigitChars[i] = c
DigitVal(c) == (CHOOSE i \in 1..10 : DigitChars[i] = c) - 1

RECURSIVE split(_)
\* s.split(':'): the segments between the colons; always at least one
split(s) ==
  IF \A i \in 1..Len(s) : s[i] # ":" THEN <<s>>
  ELSE LET k == CHOOSE i \in 1..Len(s) : s[i] = ":" /\ \A j \in 1..(i - 1) : s[j] # ":"
       IN <<SubSeq(s, 1, k - 1)>> \o split(SubSeq(s, k + 1, Len(s)))

\* Iterator::next on the split, the n-th time it is called
next(segs, n) == IF n <= Len(segs) THEN Some(segs[n]) ELSE None

RECURSIVE checked_digits(_, _, _, _, _, _)
\* the digit loop of from_str_radix: checked_mul by 10, then checked_add
\* (checked_sub for a negative number) of each digit
checked_digits(digits, i, acc, sign, lo, hi) ==
  IF i > Len(digits) THEN Some(acc)
  ELSE IF ~IsDigit(digits[i]) THEN None
  ELSE LET m == acc * 10
           a == m + sign * DigitVal(digits[i])
       IN IF m < lo \/ m > hi \/ a < lo \/ a > hi THEN None
          ELSE checked_digits(digits, i + 1, a, sign, lo, hi)

\* str::parse::<usize>() / str::parse::<isize>()
parse_int(src, is_signed) ==
  LET lo == IF is_signed THEN IsizeMin ELSE 0
      hi == IF is_signed THEN IsizeMax ELSE UsizeMax
      r == IF src = <<>> THEN None
           ELSE IF Len(src) = 1 /\ src[1] \in {"+", "-"} THEN None
           ELSE IF src[1] = "+" THEN checked_digits(Tail(src), 1, 0, 1, lo, hi)
           ELSE IF src[1] = "-" /\ is_signed THEN checked_digits(Tail(src), 1, 0, -1, lo, hi)
           ELSE checked_digits(src, 1, 0, 1, lo, hi)
  IN r

parse_usize(src) == parse_int(src, FALSE)
parse_isize(src) == parse_int(src, TRUE)

RECURSIVE usize_fmt(_)
\* Display of a usize: its decimal digits
usize_fmt(n) ==
  IF n < 10 THEN <<DigitChars[n + 1]>>
  ELSE usize_fmt(n \div 10) \o <<DigitChars[(n % 10) + 1]>>

(***************************************************************************)
(* SourceLocation: FromStr and Display.                                    *)
(***************************************************************************)
SourceLocation == [start : 0..UsizeMax,
                   length : {None} \cup {Some(n) : n \in 0..UsizeMax},
                   index : {None} \cup {Some(n) : n \in 0..UsizeMax}]

\* format!("{} invalid source location", s)
invalid_location(s) ==
  s \o <<" ", "i", "n", "v", "a", "l", "i", "d", " ", "s", "o", "u", "r", "c", "e",
         " ", "l", "o", "c", "a", "t", "i", "o", "n">>

\* if x < 0 { None } else { Some(x as usize) }
nonpositive_is_none(x) == IF x <= 0 THEN None ELSE Some(x)
negative_is_none(x) == IF x < 0 THEN None ELSE Some(x)

\* <SourceLocation as FromStr>::from_str
from_str(s) ==
  LET segs == split(s)
      s1 == next(segs, 1)
      s2 == next(segs, 2)
      s3 == next(segs, 3)
      start == IF s1.some THEN parse_usize(s1.v) ELSE None
      length == IF s2.some THEN parse_isize(s2.v) ELSE None
      index == IF s3.some THEN parse_isize(s3.v) ELSE None
  IN IF ~start.some \/ ~length.some \/ ~index.some THEN Err(invalid_location(s))
     ELSE Ok([start |-> start.v,
              length |-> negative_is_none(length.v),
              index |-> negative_is_none(index.v)])

\* what Display writes for an Option<usize> field
fmt_field_zero(o) == IF o.some THEN usize_fmt(o.v) ELSE <<"0">>
fmt_field(o) == IF o.some THEN usize_fmt(o.v) ELSE <<"-", "1">>

\* <SourceLocation as Display>::fmt
fmt(loc) ==
  usize_fmt(loc.start) \o <<":">> \o fmt_field(loc.length) \o <<":">> \o fmt_field(loc.index)

(***************************************************************************)
(* Inputs of the codec: texts of up to MaxSegs segments joined by ':'.     *)
(***************************************************************************)
Segments == { <<>>, <<"0">>, <<"1">>, <<"7">>, <<"-", "1">>, <<"-", "2">>, <<"-", "0">>,
              <<"+", "1">>, <<"0", "1">>, <<"x">> }

RECURSIVE join(_)
join(q) == IF Len(q) = 1 THEN q[1] ELSE q[1] \o <<":">> \o join(Tail(q))

Texts == UNION { { join(q) : q \in [1..n -> Segments] } : n \in 1..MaxSegs }

(***************************************************************************)
(* The codec's pipeline: from_str, then Display, then from_str again; or,  *)
(* starting from a value, Display and then from_str.                       *)
(***************************************************************************)
InitLoc ==
  /\ pc = "start"
  /\ kind \in {"text", "loc"}
  /\ given \in (IF kind = "text" THEN Texts ELSE SourceLocation)
  /\ value = (IF kind = "text" THEN Nil ELSE Ok(given))
  /\ wire = Nil
  /\ again = Nil

FromStr ==
  /\ pc = "start" /\ kind = "text"
  /\ value' = from_str(given)
  /\ pc' = IF value'.ok THEN "parsed" ELSE "failed"
  /\ UNCHANGED <<kind, given, wire, again>>

Display ==
  /\ kind \in {"text", "loc"}
  /\ pc = (IF kind = "text" THEN "parsed" ELSE "start")
  /\ wire' = fmt(value.val)
  /\ pc' = "shown"
  /\ UNCHANGED <<kind, given, value, again>>

FromStrAgain ==
  /\ kind \in {"text", "loc"}
  /\ pc = "shown"
  /\ again' = from_str(wire)
  /\ pc' = "done"
  /\ UNCHANGED <<kind, given, value, wire>>

NextLoc == FromStr \/ Display \/ FromStrAgain

SpecLoc == InitLoc /\ [][NextLoc]_vars

(***************************************************************************)
(* Claims about the codec.                                                 *)
(***************************************************************************)
\* a decimal numeral without sign or leading zeros
IsCanonNat(seg) ==
  /\ seg # <<>>
  /\ \A i \in 1..Len(seg) : IsDigit(seg[i])
  /\ (Len(seg) = 1 \/ seg[1] # "0")

\* exactly three segments: a numeral, then two that are a numeral or "-1"
IsCanonicalText(s) ==
  LET segs == split(s)
  IN /\ Len(segs) = 3
     /\ IsCanonNat(segs[1])
     /\ \A i \in {2, 3} : IsCanonNat(segs[i]) \/ segs[i] = <<"-", "1">>

RECURSIVE StripZeros(_)
\* a numeral without its leading zeros
StripZeros(ds) == IF Len(ds) > 1 /\ ds[1] = "0" THEN StripZeros(Tail(ds)) ELSE ds

\* the canonical text of one integer segment: "-1" for a negative number,
\* else its digits without sign and leading zeros
CanonSeg(seg) ==
  IF seg[1] = "-"
    THEN (IF \A i \in 2..Len(seg) : seg[i] = "0" THEN <<"0">> ELSE <<"-", "1">>)
    ELSE StripZeros(IF seg[1] = "+" THEN Tail(seg) ELSE seg)

\* the canonical text of an accepted text: its first three segments
CanonText(s) ==
  LET segs == split(s)
  IN CanonSeg(segs[1]) \o <<":">> \o CanonSeg(segs[2]) \o <<":">> \o CanonSeg(segs[3])

\* C3 as stated: for every string s that from_str accepts, Display of the
\* parsed value yields exactly s
C3_Original ==
  (kind = "text" /\ pc \in {"shown", "done"}) => wire = given

\* C3 amended: for every string s that from_str accepts, Display of the parsed
\* value yields s exactly when s is in canonical form, and otherwise yields
\* the canonical text of the same value (which parses back to that value)
C3_Amended ==
  (kind = "text" /\ pc = "done") =>
     /\ (wire = given) <=> IsCanonicalText(given)
     /\ wire = CanonText(given)
     /\ IsCanonicalText(wire)
     /\ again = value

C3_Witness ==
  /\ kind = "text" /\ pc = "done"
  /\ IsCanonicalText(given)
  /\ ~value.val.length.some /\ value.val.index.some
  /\ wire = given

\* C4 as stated: for every SourceLocation value, parsing its Display output
\* succeeds and returns an equal value
C4_Claim ==
  (kind = "loc" /\ pc = "done") => again = Ok(given)

\* exactly three segments, each parseable as an integer, the first non-negative
ThreeIntegerSegments(s) ==
  LET segs == split(s)
  IN /\ Len(segs) = 3
     /\ parse_usize(segs[1]).some
     /\ parse_isize(segs[2]).some
     /\ parse_isize(segs[3]).some

\* C5 as stated: from_str accepts a string only if it has exactly three
\* integer segments (the first non-negative), and answers every other string
\* with an error whose message carries that string
C5_Claim ==
  (kind = "text" /\ pc \in {"parsed", "failed"}) =>
     IF ThreeIntegerSegments(given)
       THEN value.ok
       ELSE /\ ~value.ok
            /\ Len(value.err) >= Len(given)
            /\ SubSeq(value.err, 1, Len(given)) = given

(***************************************************************************)
(* JSON values (serde_json::Value).                                        *)
(***************************************************************************)
JNull == [t |-> "null"]
JNum(n) == [t |-> "num", n |-> n]
JStr(s) == [t |-> "str", s |-> s]
JArr(a) == [t |-> "arr", a |-> a]
JObj(f) == [t |-> "obj", o |-> f]

\* the map without entries
Empty == <<>>

\* the entries of map f whose key is in set S
Restrict(f, S) == [k \in (DOMAIN f) \cap S |-> f[k]]

\* every serde error; which of several defects is reported depends on the
\* order of the keys in the text, which a JSON value does not keep
DeError == Err("deserialize error")

S_id == <<"i", "d">>
S_nodeType == <<"n", "o", "d", "e", "T", "y", "p", "e">>
S_src == <<"s", "r", "c">>
S_nodes == <<"n", "o", "d", "e", "s">>
S_body == <<"b", "o", "d", "y">>
S_absolutePath == <<"a", "b", "s", "o", "l", "u", "t", "e", "P", "a", "t", "h">>
S_exportedSymbols == <<"e", "x", "p", "o", "r", "t", "e", "d", "S", "y", "m", "b", "o", "l", "s">>
S_Other == <<"O", "t", "h", "e", "r">>

(***************************************************************************)
(* NodeType: #[derive(Serialize, Deserialize)] on the enum, which is       *)
(* serde's externally tagged representation: a unit variant is the string  *)
(* of its name, the newtype variant Other(s) is the object {"Other": s}.   *)
(***************************************************************************)
\* the unit variants, by name
UnitVariants == {
       <<"A","s","s","i","g","n","m","e","n","t">>,
       <<"B","i","n","a","r","y","O","p","e","r","a","t","i","o","n">>,
       <<"C","o","n","d","i","t","i","o","n","a","l">>,
       <<"E","l","e","m","e","n","t","a","r","y","T","y","p","e","N","a","m","e","E","x","p","r","e","s","s","i","o","n">>,
       <<"F","u","n","c","t","i","o","n","C","a","l","l">>,
       <<"F","u","n","c","t","i","o","n","C","a","l","l","O","p","t","i","o","n","s">>,
       <<"I","d","e","n","t","i","f","i","e","r">>,
       <<"I","n","d","e","x","A","c","c","e","s","s">>,
       <<"I","n","d","e","x","R","a","n","g","e","A","c","c","e","s","s">>,
       <<"L","i","t","e","r","a","l">>,
       <<"M","e","m","b","e","r","A","c","c","e","s","s">>,
       <<"N","e","w","E","x","p","r","e","s","s","i","o","n">>,
       <<"T","u","p","l","e","E","x","p","r","e","s","s","i","o","n">>,
       <<"U","n","a","r","y","O","p","e","r","a","t","i","o","n">>,
       <<"B","l","o","c","k">>,
       <<"B","r","e","a","k">>,
       <<"C","o","n","t","i","n","u","e">>,
       <<"D","o","W","h","i","l","e","S","t","a","t","e","m","e","n","t">>,
       <<"E","m","i","t","S","t","a","t","e","m","e","n","t">>,
       <<"E","x","p","r","e","s","s","i","o","n","S","t","a","t","e","m","e","n","t">>,
       <<"F","o","r","S","t","a","t","e","m","e","n","t">>,
       <<"I","f","S","t","a","t","e","m","e","n","t">>,
       <<"I","n","l","i","n","e","A","s","s","e","m","b","l","y">>,
       <<"P","l","a","c","e","h","o","l","d","e","r","S","t","a","t","e","m","e","n","t">>,
       <<"R","e","t","u","r","n">>,
       <<"R","e","v","e","r","t","S","t","a","t","e","m","e","n","t">>,
       <<"T","r","y","S","t","a","t","e","m","e","n","t">>,
       <<"U","n","c","h","e","c","k","e","d","B","l","o","c","k">>,
       <<"V","a","r","i","a","b","l","e","D","e","c","l","a","r","a","t","i","o","n","S","t","a","t","e","m","e","n","t">>,
       <<"V","a","r","i","a","b","l","e","D","e","c","l","a","r","a","t","i","o","n">>,
       <<"W","h","i","l","e","S","t","a","t","e","m","e","n","t">>,
       <<"Y","u","l","A","s","s","i","g","n","m","e","n","t">>,
       <<"Y","u","l","B","l","o","c","k">>,
       <<"Y","u","l","B","r","e","a","k">>,
       <<"Y","u","l","C","o","n","t","i","n","u","e">>,
       <<"Y","u","l","E","x","p","r","e","s","s","i","o","n","S","t","a","t","e","m","e","n","t">>,
       <<"Y","u","l","L","e","a","v","e">>,
       <<"Y","u","l","F","o","r","L","o","o","p">>,
       <<"Y","u","l","F","u","n","c","t","i","o","n","D","e","f","i","n","i","t","i","o","n">>,
       <<"Y","u","l","I","f">>,
       <<"Y","u","l","S","w","i","t","c","h">>,
       <<"Y","u","l","V","a","r","i","a","b","l","e","D","e","c","l","a","r","a","t","i","o","n">>,
       <<"Y","u","l","F","u","n","c","t","i","o","n","C","a","l","l">>,
       <<"Y","u","l","I","d","e","n","t","i","f","i","e","r">>,
       <<"Y","u","l","L","i","t","e","r","a","l">>,
       <<"Y","u","l","L","i","t","e","r","a","l","V","a","l","u","e">>,
       <<"Y","u","l","H","e","x","V","a","l","u","e">>,
       <<"C","o","n","t","r","a","c","t","D","e","f","i","n","i","t","i","o","n">>,
       <<"F","u","n","c","t","i","o","n","D","e","f","i","n","i","t","i","o","n">>,
       <<"E","v","e","n","t","D","e","f","i","n","i","t","i","o","n">>,
       <<"E","r","r","o","r","D","e","f","i","n","i","t","i","o","n">>,
       <<"M","o","d","i","f","i","e","r","D","e","f","i","n","i","t","i","o","n">>,
       <<"S","t","r","u","c","t","D","e","f","i","n","i","t","i","o","n">>,
       <<"E","n","u","m","D","e","f","i","n","i","t","i","o","n">>,
       <<"U","s","e","r","D","e","f","i","n","e","d","V","a","l","u","e","T","y","p","e","D","e","f","i","n","i","t","i","o","n">>,
       <<"P","r","a","g","m","a","D","i","r","e","c","t","i","v","e">>,
       <<"I","m","p","o","r","t","D","i","r","e","c","t","i","v","e">>,
       <<"U","s","i","n","g","F","o","r","D","i","r","e","c","t","i","v","e">>,
       <<"S","o","u","r","c","e","U","n","i","t">>,
       <<"I","n","h","e","r","i","t","a","n","c","e","S","p","e","c","i","f","i","e","r">>,
       <<"E","l","e","m","e","n","t","a","r","y","T","y","p","e","N","a","m","e">>,
       <<"F","u","n","c","t","i","o","n","T","y","p","e","N","a","m","e">>,
       <<"P","a","r","a","m","e","t","e","r","L","i","s","t">>,
       <<"T","r","y","C","a","t","c","h","C","l","a","u","s","e">>,
       <<"M","o","d","i","f","i","e","r","I","n","v","o","c","a","t","i","o","n">>
}

Unit(name) == [variant |-> name]
Other(s) == [variant |-> S_Other, data |-> s]
IsOther(nt) == "data" \in DOMAIN nt

\* derived <NodeType as Deserialize>::deserialize, from a JSON value
deserialize_NodeType(j) ==
  IF j.t = "str" THEN
    \* a string names a variant without content: a unit variant; "Other"
    \* without content and every other string are errors
    IF j.s \in UnitVariants THEN Ok(Unit(j.s)) ELSE DeError
  ELSE IF j.t = "obj" /\ Cardinality(DOMAIN j.o) = 1 THEN
    LET k == CHOOSE x \in DOMAIN j.o : TRUE
        content == j.o[k]
    IN IF k \in UnitVariants THEN (IF content.t = "null" THEN Ok(Unit(k)) ELSE DeError)
       ELSE IF k = S_Other THEN (IF content.t = "str" THEN Ok(Other(content.s)) ELSE DeError)
       ELSE DeError
  ELSE DeError

\* a serializer that writes every variant as a plain string
serialize_NodeType_plain(nt) == IF IsOther(nt) THEN JStr(nt.data) ELSE JStr(nt.variant)

\* derived <NodeType as Serialize>::serialize, to a JSON value
serialize_NodeType(nt) ==
  IF IsOther(nt) THEN JObj(S_Other :> JStr(nt.data)) ELSE JStr(nt.variant)

(***************************************************************************)
(* Inputs of the NodeType pipeline.                                        *)
(***************************************************************************)
N_Block == <<"B", "l", "o", "c", "k">>
N_SourceUnit == <<"S", "o", "u", "r", "c", "e", "U", "n", "i", "t">>
N_MadeUp == <<"M", "a", "d", "e", "U", "p", "F", "u", "t", "u", "r", "e", "K", "i", "n", "d">>

\* strings that are no variant name: a future kind, names of known variants
\* in another case or with surrounding whitespace, the empty string
UnknownNames == { N_MadeUp,
                  <<"b", "l", "o", "c", "k">>,
                  <<"B", "L", "O", "C", "K">>,
                  <<" ", "B", "l", "o", "c", "k">>,
                  <<"B", "l", "o", "c", "k", " ">>,
                  <<>> }

TagInputs ==
  { JStr(n) : n \in UnitVariants \cup UnknownNames \cup {S_Other} }
  \cup { JObj(S_Other :> JStr(n)) : n \in UnknownNames \cup {N_Block} }
  \cup { JObj(n :> JNull) : n \in {N_Block, S_Other, N_MadeUp} }
  \cup { JObj(S_Other :> JNum(0)), JObj(N_Block :> JStr(N_Block)), JObj(Empty),
         JObj((N_Block :> JNull) @@ (S_Other :> JStr(N_MadeUp))),
         JNull, JNum(0), JArr(<<JStr(N_Block)>>) }

NodeTypes ==
  { Unit(n) : n \in UnitVariants } \cup { Other(s) : s \in UnknownNames \cup {N_Block, S_Other} }

InitType ==
  /\ pc = "start"
  /\ kind \in {"tag", "type"}
  /\ given \in (IF kind = "tag" THEN TagInputs ELSE NodeTypes)
  /\ value = (IF kind = "tag" THEN Nil ELSE Ok(given))
  /\ wire = Nil
  /\ again = Nil

DeserializeTag ==
  /\ pc = "start" /\ kind = "tag"
  /\ value' = deserialize_NodeType(given)
  /\ pc' = IF value'.ok THEN "parsed" ELSE "failed"
  /\ UNCHANGED <<kind, given, wire, again>>

SerializeType ==
  /\ kind \in {"tag", "type"}
  /\ pc = (IF kind = "tag" THEN "parsed" ELSE "start")
  /\ wire' = serialize_NodeType(value.val)
  /\ pc' = "shown"
  /\ UNCHANGED <<kind, given, value, again>>

DeserializeTagAgain ==
  /\ kind \in {"tag", "type"}
  /\ pc = "shown"
  /\ again' = deserialize_NodeType(wire)
  /\ pc' = "done"
  /\ UNCHANGED <<kind, given, value, wire>>

NextType == DeserializeTag \/ SerializeType \/ DeserializeTagAgain

SpecType == InitType /\ [][NextType]_vars

(***************************************************************************)
(* Claims about NodeType.                                                  *)
(***************************************************************************)
\* C1 as stated: a nodeType that is a JSON string other than the known
\* variant names always parses, to Other(s) with s the string verbatim
C1_Claim ==
  (kind = "tag" /\ pc \in {"parsed", "failed"}
     /\ given.t = "str" /\ given.s \notin UnitVariants) =>
         value = Ok(Other(given.s))

\* C2 as stated: every known variant serializes to the JSON string of its
\* name and Other(s) serializes to the JSON string s
C2_Claim ==
  (kind = "type" /\ pc \in {"shown", "done"}) =>
     wire = JStr(IF IsOther(given) THEN given.data ELSE given.variant)

(***************************************************************************)
(* serde's Deserialize / Serialize of the field types.                     *)
(***************************************************************************)
\* <usize as Deserialize>: a JSON integer within usize
deserialize_usize(j) ==
  IF j.t = "num" /\ j.n >= 0 /\ j.n <= UsizeMax THEN Ok(j.n) ELSE DeError

\* <String as Deserialize>: a JSON string
deserialize_String(j) == IF j.t = "str" THEN Ok(j.s) ELSE DeError

\* <Vec<usize> as Deserialize>: a JSON array of usize, in order
deserialize_Vec_usize(j) ==
  IF j.t # "arr" THEN DeError
  ELSE IF \A i \in 1..Len(j.a) : deserialize_usize(j.a[i]).ok
         THEN Ok([i \in 1..Len(j.a) |-> j.a[i].n])
         ELSE DeError

\* <BTreeMap<String, Vec<usize>> as Deserialize>: a JSON object of such arrays
deserialize_exported_symbols(j) ==
  IF j.t # "obj" THEN DeError
  ELSE IF \A k \in DOMAIN j.o : deserialize_Vec_usize(j.o[k]).ok
         THEN Ok([k \in DOMAIN j.o |-> deserialize_Vec_usize(j.o[k]).val])
         ELSE DeError

\* <BTreeMap<String, Vec<usize>> as Serialize>
serialize_exported_symbols(m) ==
  JObj([k \in DOMAIN m |-> JArr([i \in 1..Len(m[k]) |-> JNum(m[k][i])])])

\* serde_helpers::display_from_str::deserialize: a JSON string, handed to
\* FromStr; its error becomes the deserializer's
display_from_str_deserialize(j) ==
  IF j.t # "str" THEN DeError
  ELSE IF from_str(j.s).ok THEN from_str(j.s) ELSE DeError

\* serde_helpers::display_from_str::serialize: the Display text as a JSON string
display_from_str_serialize(loc) == JStr(fmt(loc))

(***************************************************************************)
(* Node: derived Deserialize and Serialize.  With a #[serde(flatten)]      *)
(* field the struct is read from a JSON object only: every key that names  *)
(* a field is read into that field, every other entry is collected into    *)
(* `other`; a field without #[serde(default)] that is missing is an error. *)
(***************************************************************************)
NodeFields == {S_id, S_nodeType, S_src, S_nodes, S_body}

\* the entries collected by the flattened `other` of a Node
Node_other_all(o) == o
Node_other(o) == Restrict(o, (DOMAIN o) \ NodeFields)

RECURSIVE deserialize_Node(_)
RECURSIVE deserialize_Vec_Node(_)
RECURSIVE deserialize_Option_Box_Node(_)

\* <Vec<Node> as Deserialize>: a JSON array whose every element is a Node
deserialize_Vec_Node(j) ==
  IF j.t # "arr" THEN DeError
  ELSE IF \A i \in 1..Len(j.a) : deserialize_Node(j.a[i]).ok
         THEN Ok([i \in 1..Len(j.a) |-> deserialize_Node(j.a[i]).val])
         ELSE DeError

\* <Option<Box<Node>> as Deserialize>: null is None, anything else a Node
deserialize_Option_Box_Node(j) ==
  IF j.t = "null" THEN Ok(None)
  ELSE IF deserialize_Node(j).ok
         THEN Ok(Some(deserialize_Node(j).val))
         ELSE DeError

\* <Node as Deserialize>
deserialize_Node(j) ==
  IF j.t # "obj" THEN DeError
  ELSE
    LET o == j.o
        has(k) == k \in DOMAIN o
        id == IF has(S_id) THEN deserialize_usize(o[S_id]) ELSE DeError
        node_type == IF has(S_nodeType) THEN deserialize_NodeType(o[S_nodeType]) ELSE DeError
        src == IF has(S_src) THEN display_from_str_deserialize(o[S_src]) ELSE DeError
        nodes == IF has(S_nodes) THEN deserialize_Vec_Node(o[S_nodes]) ELSE Ok(<<>>)
        body == IF has(S_body) THEN deserialize_Option_Box_Node(o[S_body]) ELSE Ok(None)
    IN IF id.ok /\ node_type.ok /\ src.ok /\ nodes.ok /\ body.ok
         THEN Ok([id |-> id.val,
                  node_type |-> node_type.val,
                  src |-> src.val,
                  nodes |-> nodes.val,
                  body |-> body.val,
                  other |-> Node_other(o)])
         ELSE DeError

RECURSIVE serialize_Node(_)
\* <Node as Serialize>, to a JSON value: the fields in declaration order,
\* `nodes` skipped when empty, `body` skipped when None, then the entries of
\* `other`; a later entry of the same key replaces an earlier one
serialize_Node(n) ==
  JObj(n.other
       @@ (IF n.body.some THEN S_body :> serialize_Node(n.body.v) ELSE Empty)
       @@ (IF Len(n.nodes) = 0 THEN Empty
           ELSE S_nodes :> JArr([i \in 1..Len(n.nodes) |-> serialize_Node(n.nodes[i])]))
       @@ (S_src :> display_from_str_serialize(n.src))
       @@ (S_nodeType :> serialize_NodeType(n.node_type))
       @@ (S_id :> JNum(n.id)))

(***************************************************************************)
(* Ast: derived Deserialize and Serialize.                                 *)
(***************************************************************************)
AstFields == {S_absolutePath, S_id, S_exportedSymbols, S_nodeType, S_src, S_nodes}

\* what a missing `exportedSymbols` gives: #[serde(default)]
exported_symbols_required == DeError
exported_symbols_missing == Ok(Empty)

\* the entries collected by the flattened `other` of an Ast
Ast_other(o) == Restrict(o, (DOMAIN o) \ AstFields)

\* <Ast as Deserialize>
deserialize_Ast(j) ==
  IF j.t # "obj" THEN DeError
  ELSE
    LET o == j.o
        has(k) == k \in DOMAIN o
        absolute_path == IF has(S_absolutePath) THEN deserialize_String(o[S_absolutePath])
                         ELSE DeError
        id == IF has(S_id) THEN deserialize_usize(o[S_id]) ELSE DeError
        exported_symbols == IF has(S_exportedSymbols)
                              THEN deserialize_exported_symbols(o[S_exportedSymbols])
                              ELSE exported_symbols_missing
        node_type == IF has(S_nodeType) THEN deserialize_NodeType(o[S_nodeType]) ELSE DeError
        src == IF has(S_src) THEN display_from_str_deserialize(o[S_src]) ELSE DeError
        nodes == IF has(S_nodes) THEN deserialize_Vec_Node(o[S_nodes]) ELSE Ok(<<>>)
    IN IF absolute_path.ok /\ id.ok /\ exported_symbols.ok /\ node_type.ok /\ src.ok /\ nodes.ok
         THEN Ok([absolute_path |-> absolute_path.val,
                  id |-> id.val,
                  exported_symbols |-> exported_symbols.val,
                  node_type |-> node_type.val,
                  src |-> src.val,
                  nodes |-> nodes.val,
                  other |-> Ast_other(o)])
         ELSE DeError

\* <Ast as Serialize>, to a JSON value: `exportedSymbols` is always written,
\* `nodes` is skipped when empty
serialize_Ast(a) ==
  JObj(a.other
       @@ (IF Len(a.nodes) = 0 THEN Empty
           ELSE S_nodes :> JArr([i \in 1..Len(a.nodes) |-> serialize_Node(a.nodes[i])]))
       @@ (S_src :> display_from_str_serialize(a.src))
       @@ (S_nodeType :> serialize_NodeType(a.node_type))
       @@ (S_exportedSymbols :> serialize_exported_symbols(a.exported_symbols))
       @@ (S_id :> JNum(a.id))
       @@ (S_absolutePath :> JStr(a.absolute_path)))

(***************************************************************************)
(* Input documents.  A field's candidates are one-entry maps (Empty when   *)
(* the key is absent); a node is the union of one candidate per field.     *)
(* "Accepted" and "Rejected" say what the field's deserializer does.       *)
(***************************************************************************)
S_name == <<"n", "a", "m", "e">>
S_info == <<"i", "n", "f", "o">>
S_license == <<"l", "i", "c", "e", "n", "s", "e">>
S_A == <<"A">>
S_B == <<"B">>
P_a_sol == <<"a", ".", "s", "o", "l">>
N_FunctionDefinition == <<"F", "u", "n", "c", "t", "i", "o", "n", "D", "e", "f", "i", "n", "i", "t", "i", "o", "n">>
L_0_1_0 == <<"0", ":", "1", ":", "0">>
L_7_n_n == <<"7", ":", "-", "1", ":", "-", "1">>
L_0_m2_01 == <<"0", ":", "-", "2", ":", "0", "1">>
L_0_0_0_0 == <<"0", ":", "0", ":", "0", ":", "0">>
L_0_1 == <<"0", ":", "1">>
L_1_1_0 == <<"1", ":", "1", ":", "0">>
L_0_3_0 == <<"0", ":", "3", ":", "0">>

IdAccepted == { S_id :> JNum(1) }
IdRejected == { Empty, S_id :> JStr(<<"1">>), S_id :> JNum(-1) }

TypeAccepted == { S_nodeType :> JStr(N_Block),
                  S_nodeType :> JObj(S_Other :> JStr(N_MadeUp)),
                  S_nodeType :> JObj(N_Block :> JNull) }
TypeRejected == { Empty, S_nodeType :> JStr(N_MadeUp) }

SrcAccepted == { S_src :> JStr(L_0_1_0), S_src :> JStr(L_7_n_n),
                 S_src :> JStr(L_0_m2_01), S_src :> JStr(L_0_0_0_0) }
SrcRejected == { Empty, S_src :> JStr(L_0_1), S_src :> JNum(0) }

\* keys that are no field, one with a structured value
Extras == (S_name :> JStr(<<"f">>))
          @@ (S_info :> JArr(<<JNull, JObj(S_id :> JNum(9))>>))
\* the optional fields written out with nothing in them
EmptyOptionals == (S_nodes :> JArr(<<>>)) @@ (S_body :> JNull)
OptionalsRejected == { S_nodes :> JNull, S_body :> JNum(0) }

\* map `base` with its entry for `key` replaced by the candidate `cand`
Replace(base, key, cand) == cand @@ Restrict(base, (DOMAIN base) \ {key})

BaseLeaf == (S_id :> JNum(1)) @@ (S_nodeType :> JStr(N_Block)) @@ (S_src :> JStr(L_0_1_0))
GoodLeaf == JObj((S_id :> JNum(2)) @@ (S_nodeType :> JStr(N_Block)) @@ (S_src :> JStr(L_1_1_0)))

Leaves ==
  { JObj(i @@ ty @@ s @@ d) : i \in IdAccepted, ty \in TypeAccepted, s \in SrcAccepted,
                              d \in {Empty, Extras, EmptyOptionals} }
  \cup { JObj(Replace(BaseLeaf, S_id, i)) : i \in IdRejected }
  \cup { JObj(Replace(BaseLeaf, S_nodeType, ty)) : ty \in TypeRejected }
  \cup { JObj(Replace(BaseLeaf, S_src, s)) : s \in SrcRejected }
  \cup { JObj(x @@ BaseLeaf) : x \in OptionalsRejected }

\* the ways a node holds a child c
Kids(c) == { S_nodes :> JArr(<<c>>),
             S_nodes :> JArr(<<GoodLeaf, c>>),
             S_body :> c }

InnerOwn ==
  LET base == (S_id :> JNum(3)) @@ (S_nodeType :> JStr(N_FunctionDefinition))
              @@ (S_src :> JStr(L_0_3_0))
  IN { base, base @@ Extras }

RECURSIVE NodesUpTo(_)
\* node objects with at most d levels of nodes below them
NodesUpTo(d) ==
  IF d = 0 THEN Leaves
  ELSE Leaves \cup { JObj(own @@ kids) : own \in InnerOwn,
                                         kids \in UNION { Kids(c) : c \in NodesUpTo(d - 1) } }

PathAccepted == { S_absolutePath :> JStr(P_a_sol) }
PathRejected == { Empty, S_absolutePath :> JNum(0) }
RootIdAccepted == { S_id :> JNum(0) }
SymbolsAccepted == { Empty,
                     S_exportedSymbols :> JObj(Empty),
                     S_exportedSymbols :> JObj((S_A :> JArr(<<JNum(2), JNum(1)>>))
                                               @@ (S_B :> JArr(<<>>))) }
SymbolsRejected == { S_exportedSymbols :> JNull,
                     S_exportedSymbols :> JObj(S_A :> JArr(<<JNum(-1)>>)) }
RootTypeAccepted == { S_nodeType :> JStr(N_SourceUnit),
                      S_nodeType :> JObj(S_Other :> JStr(N_MadeUp)) }
RootSrcAccepted == { S_src :> JStr(L_0_3_0), S_src :> JStr(L_0_m2_01) }
\* keys that are no field of the root: `body` is one of them
RootExtras == (S_license :> JStr(<<"M", "I", "T">>)) @@ (S_body :> JObj(S_id :> JNull))

BaseRoot == (S_absolutePath :> JStr(P_a_sol)) @@ (S_id :> JNum(0))
            @@ (S_exportedSymbols :> JObj(Empty))
            @@ (S_nodeType :> JStr(N_SourceUnit)) @@ (S_src :> JStr(L_0_3_0))

RootOwn ==
  { pa @@ i @@ sy @@ ty @@ s @@ d : pa \in PathAccepted, i \in RootIdAccepted,
                                    sy \in SymbolsAccepted, ty \in RootTypeAccepted,
                                    s \in RootSrcAccepted, d \in {Empty, RootExtras} }
  \cup { Replace(BaseRoot, S_absolutePath, pa) : pa \in PathRejected }
  \cup { Replace(BaseRoot, S_id, i) : i \in IdRejected }
  \cup { Replace(BaseRoot, S_exportedSymbols, sy) : sy \in SymbolsRejected }
  \cup { Replace(BaseRoot, S_nodeType, ty) : ty \in TypeRejected }
  \cup { Replace(BaseRoot, S_src, s) : s \in SrcRejected }

RootKids ==
  { Empty, S_nodes :> JArr(<<>>) }
  \cup UNION { { S_nodes :> JArr(<<c>>),
                 S_nodes :> JArr(<<GoodLeaf, c>>) } : c \in NodesUpTo(MaxDepth - 1) }

\* the documents handed to the Ast deserializer
Documents == { JObj(own @@ kids) : own \in RootOwn, kids \in RootKids }

(***************************************************************************)
(* The pipeline of a document: deserialize (serde_json::from_value),       *)
(* serialize (serde_json::to_value), deserialize again.                    *)
(***************************************************************************)
InitAst ==
  /\ pc = "start"
  /\ kind \in {"ast", "node"}
  /\ given \in (IF kind = "ast" THEN Documents ELSE NodesUpTo(MaxDepth))
  /\ value = Nil
  /\ wire = Nil
  /\ again = Nil

DeserializeAst ==
  /\ pc = "start" /\ kind = "ast"
  /\ value' = deserialize_Ast(given)
  /\ pc' = IF value'.ok THEN "parsed" ELSE "failed"
  /\ UNCHANGED <<kind, given, wire, again>>

DeserializeNode ==
  /\ pc = "start" /\ kind = "node"
  /\ value' = deserialize_Node(given)
  /\ pc' = IF value'.ok THEN "parsed" ELSE "failed"
  /\ UNCHANGED <<kind, given, wire, again>>

SerializeAst ==
  /\ pc = "parsed" /\ kind = "ast"
  /\ wire' = serialize_Ast(value.val)
  /\ pc' = "shown"
  /\ UNCHANGED <<kind, given, value, again>>

SerializeNode ==
  /\ pc = "parsed" /\ kind = "node"
  /\ wire' = serialize_Node(value.val)
  /\ pc' = "shown"
  /\ UNCHANGED <<kind, given, value, again>>

DeserializeAstAgain ==
  /\ pc = "shown" /\ kind = "ast"
  /\ again' = deserialize_Ast(wire)
  /\ pc' = "done"
  /\ UNCHANGED <<kind, given, value, wire>>

DeserializeNodeAgain ==
  /\ pc = "shown" /\ kind = "node"
  /\ again' = deserialize_Node(wire)
  /\ pc' = "done"
  /\ UNCHANGED <<kind, given, value, wire>>

NextAst ==
  \/ DeserializeAst \/ DeserializeNode
  \/ SerializeAst \/ SerializeNode
  \/ DeserializeAstAgain \/ DeserializeNodeAgain

SpecAst == InitAst /\ [][NextAst]_vars

\* C10: parsing the serialization of a parsed Ast or Node succeeds and
\* returns a value equal to it
C10_Reparse ==
  (kind \in {"ast", "node"} /\ pc = "done") => again = value

C10_Witness ==
  /\ kind = "node" /\ pc = "done" /\ again = value
  /\ Len(value.val.nodes) = 0 /\ ~value.val.body.some
  /\ S_nodes \in DOMAIN given.o /\ S_nodes \notin DOMAIN wire.o
  /\ S_body \in DOMAIN given.o /\ S_body \notin DOMAIN wire.o
  /\ IsOther(value.val.node_type)

(***************************************************************************)
(* Claims about the documents.                                             *)
(***************************************************************************)
\* the typed tree of a document is walked through `nodes` and, below the
\* root, `body`
Parsed == kind \in {"ast", "node"} /\ pc \in {"parsed", "shown", "done"}
Decided == kind \in {"ast", "node"} /\ pc \in {"parsed", "failed"}
Fields == IF kind = "ast" THEN AstFields ELSE NodeFields

\* the canonical form of a nodeType: a unit variant as the string of its name
CanonType(j) ==
  IF j.t = "obj" /\ (CHOOSE k \in DOMAIN j.o : TRUE) \in UnitVariants
    THEN JStr(CHOOSE k \in DOMAIN j.o : TRUE)
    ELSE j

RECURSIVE NormNode(_)
\* a node object as the serializer writes it back
NormNode(j) ==
  LET o == j.o
  IN JObj(Restrict(o, (DOMAIN o) \ {S_src, S_nodeType, S_nodes, S_body})
          @@ (S_src :> JStr(CanonText(o[S_src].s)))
          @@ (S_nodeType :> CanonType(o[S_nodeType]))
          @@ (IF S_nodes \in DOMAIN o /\ Len(o[S_nodes].a) > 0
                THEN S_nodes :> JArr([i \in 1..Len(o[S_nodes].a) |-> NormNode(o[S_nodes].a[i])])
                ELSE Empty)
          @@ (IF S_body \in DOMAIN o /\ o[S_body].t # "null"
                THEN S_body :> NormNode(o[S_body])
                ELSE Empty))

\* a root object as the serializer writes it back
NormAst(j) ==
  LET o == j.o
  IN JObj(Restrict(o, (DOMAIN o) \ {S_src, S_nodeType, S_nodes})
          @@ (S_src :> JStr(CanonText(o[S_src].s)))
          @@ (S_nodeType :> CanonType(o[S_nodeType]))
          @@ (IF S_nodes \in DOMAIN o /\ Len(o[S_nodes].a) > 0
                THEN S_nodes :> JArr([i \in 1..Len(o[S_nodes].a) |-> NormNode(o[S_nodes].a[i])])
                ELSE Empty)
          @@ (S_exportedSymbols :> JObj(Empty)))

\* C6 as stated: serializing the parsed value of a document j yields a JSON
\* value equal to j (objects compared as maps, so up to key order)
C6_Original ==
  (kind \in {"ast", "node"} /\ pc \in {"shown", "done"}) => wire = given

\* C6 amended: serializing the parsed value yields j with, at every level of
\* the typed tree, `src` rewritten to its canonical text, a unit nodeType
\* given as {"Name": null} rewritten to "Name", an empty `nodes` array and a
\* node's null `body` removed, and `exportedSymbols` added as {} to a root
\* without it; every other key and value is unchanged, so the output equals
\* j exactly when j has that shape already
C6_Amended ==
  (kind \in {"ast", "node"} /\ pc \in {"shown", "done"}) =>
     wire = (IF kind = "ast" THEN NormAst(given) ELSE NormNode(given))

C6_Witness ==
  /\ kind = "ast" /\ pc = "shown" /\ wire = given
  /\ S_license \in DOMAIN given.o
  /\ Len(value.val.nodes) = 2
  /\ S_info \in DOMAIN value.val.nodes[2].other
  /\ IsOther(value.val.nodes[2].node_type)
  /\ ~value.val.nodes[2].src.length.some

RECURSIVE OtherIsRest(_, _, _)
\* node n, parsed from object j, keeps in `other` exactly the entries of j
\* under the keys outside `fields`, and so does every node below it
OtherIsRest(j, n, fields) ==
  /\ (DOMAIN n.other) \cap fields = {}
  /\ DOMAIN n.other \subseteq DOMAIN j.o
  /\ \A k \in (DOMAIN j.o) \ fields : k \in DOMAIN n.other /\ n.other[k] = j.o[k]
  /\ \A i \in 1..Len(n.nodes) : OtherIsRest(j.o[S_nodes].a[i], n.nodes[i], NodeFields)
  /\ ("body" \in DOMAIN n /\ n.body.some) => OtherIsRest(j.o[S_body], n.body.v, NodeFields)

RECURSIVE StripUnknown(_, _)
\* document j without the keys that are no field, at every level
StripUnknown(j, fields) ==
  IF j.t # "obj" THEN j
  ELSE JObj([k \in (DOMAIN j.o) \cap fields |->
               IF k = S_nodes /\ j.o[k].t = "arr"
                 THEN JArr([i \in 1..Len(j.o[k].a) |-> StripUnknown(j.o[k].a[i], NodeFields)])
               ELSE IF k = S_body THEN StripUnknown(j.o[k], NodeFields)
               ELSE j.o[k]])

Deserialize(j) == IF kind = "ast" THEN deserialize_Ast(j) ELSE deserialize_Node(j)

\* C7: after a successful parse every node's `other` is its input object
\* restricted to the keys that are no typed field, values unchanged; and
\* keys that are no field never make the parse fail
C7_OtherIsRest ==
  /\ Parsed => OtherIsRest(given, value.val, Fields)
  /\ Decided => (value.ok <=> Deserialize(StripUnknown(given, Fields)).ok)

C7_Witness ==
  /\ kind = "ast" /\ pc = "parsed"
  /\ DOMAIN value.val.other = {S_license, S_body}
  /\ Len(value.val.nodes) = 1
  /\ DOMAIN value.val.nodes[1].other = {S_name, S_info}
  /\ value.val.nodes[1].other[S_info] = JArr(<<JNull, JObj(S_id :> JNum(9))>>)

\* a location text of exactly three integer segments, the first non-negative
\* (section 4.1 of the specification)
WellFormedSrc(j) == j.t = "str" /\ ThreeIntegerSegments(j.s)

RECURSIVE NodeDefect(_)
\* node j, or a node below it, lacks `id`, `nodeType` or `src` or has one
\* of them malformed
NodeDefect(j) ==
  \/ j.t # "obj"
  \/ /\ j.t = "obj"
     /\ \/ {S_id, S_nodeType, S_src} \ DOMAIN j.o # {}
        \/ /\ {S_id, S_nodeType, S_src} \subseteq DOMAIN j.o
           /\ \/ ~(j.o[S_id].t = "num" /\ j.o[S_id].n >= 0)
              \/ j.o[S_nodeType].t # "str"
              \/ ~WellFormedSrc(j.o[S_src])
        \/ /\ S_nodes \in DOMAIN j.o
           /\ j.o[S_nodes].t = "arr"
           /\ \E i \in 1..Len(j.o[S_nodes].a) : NodeDefect(j.o[S_nodes].a[i])
        \/ /\ S_body \in DOMAIN j.o
           /\ j.o[S_body].t = "obj"
           /\ NodeDefect(j.o[S_body])

\* the root, or a node of its tree, has a defect, or the root lacks `absolutePath`
AstDefect(j) ==
  \/ S_absolutePath \notin DOMAIN j.o
  \/ NodeDefect(JObj(Restrict(j.o, (DOMAIN j.o) \ {S_body})))

\* C8 as stated: a defect anywhere in the tree makes the whole-file parse
\* return an error; a tree is returned only when no node has one
C8_Claim ==
  (kind = "ast" /\ pc \in {"parsed", "failed"}) => (AstDefect(given) => ~value.ok)

RECURSIVE FillDefaults(_, _)
\* document j with every absent optional field written out as its default
FillDefaults(j, fields) ==
  IF j.t # "obj" THEN j
  ELSE JObj([k \in DOMAIN j.o |->
               IF k = S_nodes /\ j.o[k].t = "arr"
                 THEN JArr([i \in 1..Len(j.o[k].a) |-> FillDefaults(j.o[k].a[i], NodeFields)])
               ELSE IF k = S_body /\ S_body \in fields THEN FillDefaults(j.o[k], NodeFields)
               ELSE j.o[k]]
            @@ (S_nodes :> JArr(<<>>))
            @@ (IF S_body \in fields THEN S_body :> JNull
                ELSE S_exportedSymbols :> JObj(Empty)))

RECURSIVE DefaultsAndOrder(_, _)
\* node n, parsed from object j: absent `nodes` is empty, absent `body` is
\* None, present `nodes` keeps its children in input order; so below it
DefaultsAndOrder(j, n) ==
  /\ S_nodes \notin DOMAIN j.o => Len(n.nodes) = 0
  /\ S_nodes \in DOMAIN j.o =>
       /\ Len(n.nodes) = Len(j.o[S_nodes].a)
       /\ \A i \in 1..Len(n.nodes) :
            /\ n.nodes[i].id = j.o[S_nodes].a[i].o[S_id].n
            /\ DefaultsAndOrder(j.o[S_nodes].a[i], n.nodes[i])
  /\ "body" \in DOMAIN n =>
       /\ S_body \notin DOMAIN j.o => n.body = None
       /\ n.body.some => DefaultsAndOrder(j.o[S_body], n.body.v)

\* absent `exportedSymbols` is the empty map; present, every id sequence is
\* the input's, in order
SymbolsAsGiven(j, a) ==
  /\ S_exportedSymbols \notin DOMAIN j.o => DOMAIN a.exported_symbols = {}
  /\ S_exportedSymbols \in DOMAIN j.o =>
       /\ DOMAIN a.exported_symbols = DOMAIN j.o[S_exportedSymbols].o
       /\ \A k \in DOMAIN a.exported_symbols :
            /\ Len(a.exported_symbols[k]) = Len(j.o[S_exportedSymbols].o[k].a)
            /\ \A i \in 1..Len(a.exported_symbols[k]) :
                 a.exported_symbols[k][i] = j.o[S_exportedSymbols].o[k].a[i].n

\* C9: an absent optional field never fails the parse and yields its default
\* (the document parses as it does with the defaults written out); present
\* `nodes` and `exportedSymbols` keep their input order
C9_Defaults ==
  /\ Decided => (value.ok <=> Deserialize(FillDefaults(given, Fields)).ok)
  /\ Parsed => /\ value.val = Deserialize(FillDefaults(given, Fields)).val
               /\ DefaultsAndOrder(given, value.val)
               /\ kind = "ast" => SymbolsAsGiven(given, value.val)

C9_Witness ==
  /\ kind = "ast" /\ pc = "parsed"
  /\ S_exportedSymbols \notin DOMAIN given.o
  /\ DOMAIN value.val.exported_symbols = {}
  /\ Len(value.val.nodes) = 2
  /\ value.val.nodes[1].id = 2 /\ value.val.nodes[2].id = 1
  /\ {S_nodes, S_body} \cap DOMAIN given.o[S_nodes].a[1].o = {}
  /\ Len(value.val.nodes[1].nodes) = 0 /\ ~value.val.nodes[1].body.some

=============================================================================
